---- MODULE Spec2Model ----
(***************************************************************************)
(* A model of epicycles.py: the construction of an Epicycles object from a *)
(* file of sample points (load_path, transform, truncation to n terms,     *)
(* y-inversion, initial state) and its frame loop (handle_input,           *)
(* update_circles, draw).                                                  *)
(*                                                                         *)
(* Numbers.  Real quantities are exact rationals <<num, den>> (den > 0,    *)
(* lowest terms).  A Fourier coefficient is a Gaussian integer <<re, im>>  *)
(* counted in units of 1/20, so that the pruning threshold 0.1 is two      *)
(* units.  Angles are integers counted in units of 2*pi/TAU radians and a  *)
(* frame time dt is an integer number of time units, the time unit chosen  *)
(* so that MIN_SPEED * 1 time unit is one angle unit.                      *)
(*                                                                         *)
(* A complex screen position is kept as the formal sum it was computed as: *)
(* a sequence of terms <<a, e>>, each standing for a * exp(e), with a and  *)
(* e complex.  0j is the empty sum.                                        *)
(***************************************************************************)
EXTENDS Integers, Sequences, FiniteSets, TLC

VARIABLES
    pc,           \* where the program is: "start", "loaded", "transformed",
                  \* "truncated", "running", "stopped", "error"
    err,          \* the exception that ended the construction, or "none"
    points_file,  \* the content of the points file: a sequence of <<x, y>>
    n,            \* argument n: <<>> for None, <<k>> for the integer k
    scale_factor, \* argument scale_factor, a rational
    fade_arg,     \* argument fade
    ifft_out,     \* what numpy's ifft returns for the loaded path
    path,         \* the result of load_path
    pops,         \* the pops of transform's loop, in order
    self,         \* the attributes of the Epicycles object set so far
    frame_out,    \* what the last frame did: chain evaluations made, and
                  \* the trace segment, fade blits and circles drawn
    totalAngle,   \* sum of the angle increments of all running frames
    fadeTotal,    \* number of fade blits made so far
    trace_end     \* end point of the last trace segment drawn, <<>> if none

vars == <<pc, err, points_file, n, scale_factor, fade_arg, ifft_out, path,
          pops, self, frame_out, totalAngle, fadeTotal, trace_end>>

----------------------------------------------------------------------------
(* Bounds of the model *)

MaxPoints == 5

MaxTotalAngle == 48

MaxTurnAngle == 570

(* Program constants *)

SCREEN_WIDTH == 700

SCREEN_HEIGHT == 700

SMOOTH_SCALE_FACTOR == 2

alpha_increment == 10

TAU == 561

----------------------------------------------------------------------------
(* Rational arithmetic *)

Abs(i) == IF i < 0 THEN -i ELSE i

RECURSIVE GCD(_, _)
GCD(a, b) == IF b = 0 THEN a ELSE GCD(b, a % b)

Rat(num, den) ==
    LET g == GCD(Abs(num), Abs(den))
        s == IF den < 0 THEN -1 ELSE 1
    IN  <<(s * num) \div g, (s * den) \div g>>

RatMul(a, b) == Rat(a[1] * b[1], a[2] * b[2])

RatDiv(a, b) == Rat(a[1] * b[2], a[2] * b[1])

RatLeq(a, b) == a[1] * b[2] <= b[1] * a[2]

RatLt(a, b) == a[1] * b[2] < b[1] * a[2]

RatAbs(a) == <<Abs(a[1]), a[2]>>

RatMin(a, b) == IF RatLeq(a, b) THEN a ELSE b

RatMax(a, b) == IF RatLeq(b, a) THEN a ELSE b

RECURSIVE RatMaxOf(_)
RatMaxOf(s) ==
    IF Len(s) = 1 THEN s[1] ELSE RatMax(s[1], RatMaxOf(Tail(s)))

(* Complex numbers <<re, im>> *)

AbsSq(z) == z[1] * z[1] + z[2] * z[2]

SCREEN_CENTER ==
    <<(SCREEN_WIDTH \div 2) * SMOOTH_SCALE_FACTOR,
      (SCREEN_HEIGHT \div 2) * SMOOTH_SCALE_FACTOR>>

MIN_SPEED == Rat(1, 16)

MAX_SPEED == Rat(16, 1)

angle_per_alpha == (TAU * alpha_increment) \div 255

----------------------------------------------------------------------------
(* load_path: read the points, rescale them when scale_factor is not 0.    *)

load_path(points, sf) ==
    LET x == [i \in 1..Len(points) |-> Rat(points[i][1], 1)]
        y == [i \in 1..Len(points) |-> Rat(points[i][2], 1)]
        zip(xs, ys) == [i \in 1..Len(points) |-> <<xs[i], ys[i]>>]
        scaled(pivot, max_shape) ==
            IF pivot[1] = 0
            THEN [err |-> "ZeroDivisionError", path |-> <<>>]
            ELSE [err |-> "none",
                  path |-> zip(
                      [i \in 1..Len(points) |->
                          RatMul(RatDiv(x[i], pivot), max_shape)],
                      [i \in 1..Len(points) |->
                          RatMul(RatDiv(y[i], pivot), max_shape)])]
    IN  IF sf # Rat(0, 1)
        THEN IF RatLt(Rat(0, 1), sf) /\ RatLeq(sf, Rat(1, 1))
             THEN LET s == RatMul(sf, Rat(SMOOTH_SCALE_FACTOR, 1))
                      max_shape_x == RatMul(Rat(SCREEN_WIDTH, 2), s)
                      max_shape_y == RatMul(Rat(SCREEN_HEIGHT, 2), s)
                  IN  IF RatLeq(max_shape_x, max_shape_y)
                      THEN scaled(RatMaxOf([i \in 1..Len(x) |-> RatAbs(x[i])]),
                                  max_shape_x)
                      ELSE scaled(RatMaxOf([i \in 1..Len(y) |-> RatAbs(y[i])]),
                                  max_shape_y)
             ELSE [err |-> "ValueError: scale_factor", path |-> <<>>]
        ELSE [err |-> "none", path |-> zip(x, y)]

----------------------------------------------------------------------------
(* transform: inverse DFT, drop coefficient 0, pop the others alternately  *)
(* from the back and the front, skip the small ones.                       *)

(* numpy's ifft is a bijection of C^N: every vector of N coefficients is   *)
(* the ifft of some path of N points.  The model takes its result from     *)
(* ifft_out, chosen with the inputs.                                       *)
ifft(p) == ifft_out

(* abs(radius) >= 0.1, the coefficient counted in units of 1/20 *)
AbsGeqTenth(z) == 100 * AbsSq(z) >= 20 * 20

Enumerate(c) == [k \in 1..Len(c) |-> [raw |-> k - 1, z |-> c[k]]]

(* mutant: the sign starts positive *)
TransformStart_SignFirst(c) ==
    [transformed |-> Tail(Enumerate(c)),
     h |-> <<>>, i |-> 1, sign |-> 1, pop_back |-> TRUE, pops |-> <<>>]

TransformStart(c) ==
    [transformed |-> Tail(Enumerate(c)),
     h |-> <<>>, i |-> 1, sign |-> -1, pop_back |-> TRUE, pops |-> <<>>]

(* mutant: the harmonic index advances only past a coefficient that is kept *)
PopStep_SkipShifts(s) ==
    LET t == s.transformed
        e == IF s.pop_back THEN t[Len(t)] ELSE t[1]
        rest == IF s.pop_back THEN SubSeq(t, 1, Len(t) - 1) ELSE Tail(t)
        keep == AbsGeqTenth(e.z)
    IN  [transformed |-> rest,
         h |-> IF keep THEN Append(s.h, <<e.z, <<0, s.sign * s.i>> >>)
                       ELSE s.h,
         i |-> IF s.sign > 0 /\ keep THEN s.i + 1 ELSE s.i,
         sign |-> s.sign * (-1),
         pop_back |-> ~s.pop_back,
         pops |-> Append(s.pops,
                     [raw |-> e.raw,
                      from |-> IF s.pop_back THEN "back" ELSE "front",
                      hn |-> s.sign * s.i,
                      kept |-> keep])]

PopStep(s) ==
    LET t == s.transformed
        e == IF s.pop_back THEN t[Len(t)] ELSE t[1]
        rest == IF s.pop_back THEN SubSeq(t, 1, Len(t) - 1) ELSE Tail(t)
        keep == AbsGeqTenth(e.z)
    IN  [transformed |-> rest,
         h |-> IF keep THEN Append(s.h, <<e.z, <<0, s.sign * s.i>> >>)
                       ELSE s.h,
         i |-> IF s.sign > 0 THEN s.i + 1 ELSE s.i,
         sign |-> s.sign * (-1),
         pop_back |-> ~s.pop_back,
         pops |-> Append(s.pops,
                     [raw |-> e.raw,
                      from |-> IF s.pop_back THEN "back" ELSE "front",
                      hn |-> s.sign * s.i,
                      kept |-> keep])]

RECURSIVE TransformLoop(_)
TransformLoop(s) ==
    IF s.transformed = <<>> THEN s ELSE TransformLoop(PopStep(s))

transform(p) == TransformLoop(TransformStart(ifft(p)))

----------------------------------------------------------------------------
(* The constructor, Epicycles.__init__ *)

(* harmonics[:n] *)
Truncate(h, k) == SubSeq(h, 1, IF k < Len(h) THEN k ELSE Len(h))

(* the y-inversion loop *)
InvertY(h) == [i \in 1..Len(h) |-> <<<<h[i][1][1], h[i][1][2] * (-1)>>, h[i][2]>>]

to_complex(xy) == << <<xy, <<0, 0>> >> >>

from_complex(z) == << <<"real", z>>, <<"imag", z>> >>

(* speed * dt in angle units *)
AngleIncrement(speed, dt) == (speed[1] * MIN_SPEED[2] * dt) \div speed[2]

RECURSIVE CirclePoints(_, _, _)
CirclePoints(h, angle, cp) ==
    IF Len(cp) = Len(h) + 1 THEN cp
    ELSE LET k == h[Len(cp)]
             p == << <<k[1], <<k[2][1] * angle, k[2][2] * angle>> >> >>
                  \o cp[Len(cp)]
         IN  CirclePoints(h, angle, Append(cp, p))

(* mutant: previous_point is not moved to the old point *)
update_circles_KeepPrevious(s, dt) ==
    LET inc == AngleIncrement(s.speed, dt)
        a1 == s.angle + inc
        a2 == IF a1 > TAU THEN a1 - TAU ELSE a1
        cp == CirclePoints(s.harmonics, a2, <<s.circle_points[1]>>)
    IN  [s EXCEPT !.angle_increment = inc,
                  !.angle = a2,
                  !.circle_points = cp,
                  !.point = from_complex(cp[Len(cp)])]

update_circles(s, dt) ==
    LET inc == AngleIncrement(s.speed, dt)
        a1 == s.angle + inc
        a2 == IF a1 > TAU THEN a1 - TAU ELSE a1
        cp == CirclePoints(s.harmonics, a2, <<s.circle_points[1]>>)
    IN  [s EXCEPT !.angle_increment = inc,
                  !.angle = a2,
                  !.circle_points = cp,
                  !.previous_point = s.point,
                  !.point = from_complex(cp[Len(cp)])]

NewObject(h, fade) ==
    LET s0 == [harmonics |-> InvertY(h),
               running |-> TRUE,
               fade |-> fade,
               angle |-> 0,
               angle_increment |-> 0,
               paused |-> FALSE,
               circles_visible |-> TRUE,
               speed |-> Rat(1, 1),
               main_surface |-> <<SCREEN_WIDTH, SCREEN_HEIGHT>>,
               line_surface |-> "blank",
               alpha_angle |-> 0,
               circle_points |->
                   <<to_complex(SCREEN_CENTER)>>
                   \o [i \in 1..Len(h) |-> <<>>],
               point |-> <<>>,
               previous_point |-> <<>>]
        s1 == update_circles(s0, 0)
    IN  [s1 EXCEPT !.previous_point = s1.point]

NoFrame == [evals |-> 0, line |-> <<>>, fades |-> 0, circles |-> <<>>]

LoadPath ==
    /\ pc = "start"
    /\ LET r == load_path(points_file, scale_factor)
       IN  IF r.err = "none"
           THEN /\ path' = r.path
                /\ pc' = "loaded"
                /\ err' = err
           ELSE /\ pc' = "error"
                /\ err' = r.err
                /\ path' = path
    /\ UNCHANGED <<points_file, n, scale_factor, fade_arg, ifft_out, pops,
                   self, frame_out, totalAngle, fadeTotal, trace_end>>

Transform ==
    /\ pc = "loaded"
    /\ LET r == transform(path)
       IN  /\ self' = [harmonics |-> r.h]
           /\ pops' = r.pops
    /\ pc' = "transformed"
    /\ UNCHANGED <<err, points_file, n, scale_factor, fade_arg, ifft_out,
                   path, frame_out, totalAngle, fadeTotal, trace_end>>

NPositive(k) == k > 0

TruncateN ==
    /\ pc = "transformed"
    /\ IF n # <<>>
       THEN IF NPositive(n[1])
            THEN /\ self' = [self EXCEPT
                                !.harmonics = Truncate(self.harmonics, n[1])]
                 /\ pc' = "truncated"
                 /\ err' = err
            ELSE /\ pc' = "error"
                 /\ err' = "ValueError: n"
                 /\ self' = self
       ELSE /\ pc' = "truncated"
            /\ UNCHANGED <<self, err>>
    /\ UNCHANGED <<points_file, n, scale_factor, fade_arg, ifft_out, path,
                   pops, frame_out, totalAngle, fadeTotal, trace_end>>

Construct ==
    /\ pc = "truncated"
    /\ self' = NewObject(self.harmonics, fade_arg)
    /\ pc' = "running"
    /\ UNCHANGED <<err, points_file, n, scale_factor, fade_arg, ifft_out,
                   path, pops, frame_out, totalAngle, fadeTotal,
                   trace_end>>

----------------------------------------------------------------------------
(* Inputs *)

None == <<>>

CoeffVals == {<<0, 0>>, <<1, 1>>, <<2, 0>>, <<0, -3>>}

PointVals == {<<1, 2>>, <<-2, -1>>, <<0, 3>>}

SeqsUpTo(S, k) == UNION {[1..m -> S] : m \in 1..k}

SamplePoint(i) == IF i % 2 = 1 THEN <<1, 2>> ELSE <<-2, -1>>

SamplePoints(len) == [i \in 1..len |-> SamplePoint(i)]

SampleCoeff(i) == IF i % 2 = 1 THEN <<2, 0>> ELSE <<0, -3>>

SampleCoeffs(len) == [i \in 1..len |-> SampleCoeff(i)]

StartState ==
    /\ pc = "start"
    /\ err = "none"
    /\ path = <<>>
    /\ pops = <<>>
    /\ self = [unset |-> TRUE]
    /\ frame_out = NoFrame
    /\ totalAngle = 0
    /\ fadeTotal = 0
    /\ trace_end = <<>>

(* Construction over many spectra, and over many files and arguments *)
InitCtor ==
    /\ StartState
    /\ \/ /\ ifft_out \in SeqsUpTo(CoeffVals, MaxPoints)
          /\ points_file = SamplePoints(Len(ifft_out))
          /\ scale_factor \in {Rat(0, 1), Rat(4, 5)}
          /\ n \in {None, <<2>>}
          /\ fade_arg = FALSE
       \/ /\ points_file \in SeqsUpTo(PointVals, MaxPoints)
          /\ ifft_out = SampleCoeffs(Len(points_file))
          /\ scale_factor \in {Rat(-1, 2), Rat(0, 1), Rat(1, 2), Rat(1, 1),
                               Rat(3, 2)}
          /\ n \in {None, <<-1>>, <<0>>, <<1>>, <<2>>}
          /\ fade_arg = FALSE

NextCtor == LoadPath \/ Transform \/ TruncateN \/ Construct

SpecCtor == InitCtor /\ [][NextCtor]_vars
----------------------------------------------------------------------------
(* The frame loop: run, handle_input, update_circles, draw *)

Events == {"QUIT", "K_ESCAPE", "K_p", "K_SPACE", "K_c", "K_UP", "K_DOWN",
           "K_BACKSPACE", "K_a"}

(* mutant: K_DOWN halves the speed with no floor *)
handle_event_NoFloor(s, ev) ==
    CASE ev \in {"QUIT", "K_ESCAPE"} -> [s EXCEPT !.running = FALSE]
      [] ev \in {"K_p", "K_SPACE"} -> [s EXCEPT !.paused = ~s.paused]
      [] ev = "K_c" -> [s EXCEPT !.circles_visible = ~s.circles_visible]
      [] ev = "K_UP" ->
            [s EXCEPT !.speed = RatMin(RatMul(s.speed, Rat(2, 1)), MAX_SPEED)]
      [] ev = "K_DOWN" ->
            [s EXCEPT !.speed = RatDiv(s.speed, Rat(2, 1))]
      [] ev = "K_BACKSPACE" -> [s EXCEPT !.line_surface = "blank"]
      [] OTHER -> s

(* the body of handle_input's loop for one event *)
handle_event(s, ev) ==
    CASE ev \in {"QUIT", "K_ESCAPE"} -> [s EXCEPT !.running = FALSE]
      [] ev \in {"K_p", "K_SPACE"} -> [s EXCEPT !.paused = ~s.paused]
      [] ev = "K_c" -> [s EXCEPT !.circles_visible = ~s.circles_visible]
      [] ev = "K_UP" ->
            [s EXCEPT !.speed = RatMin(RatMul(s.speed, Rat(2, 1)), MAX_SPEED)]
      [] ev = "K_DOWN" ->
            [s EXCEPT !.speed = RatMax(RatDiv(s.speed, Rat(2, 1)), MIN_SPEED)]
      [] ev = "K_BACKSPACE" -> [s EXCEPT !.line_surface = "blank"]
      [] OTHER -> s

(* mutant: an if in place of the while *)
FadeLoop_Once(alpha, blits) ==
    IF alpha > angle_per_alpha
    THEN <<alpha - angle_per_alpha, blits + 1>>
    ELSE <<alpha, blits>>

(* the while loop of draw: <<alpha_angle, blits made>> *)
RECURSIVE FadeLoop(_, _)
FadeLoop(alpha, blits) ==
    IF alpha > angle_per_alpha
    THEN FadeLoop(alpha - angle_per_alpha, blits + 1)
    ELSE <<alpha, blits>>

IntXY(z) == << <<"int", <<"real", z>> >>, <<"int", <<"imag", z>> >> >>

(* draw: the new attributes, and what was emitted *)
draw(s) ==
    LET f == IF ~s.paused /\ s.fade
             THEN FadeLoop(s.alpha_angle + s.angle_increment, 0)
             ELSE <<s.alpha_angle, 0>>
        xy_points == [i \in 1..Len(s.circle_points) |->
                         IntXY(s.circle_points[i])]
    IN  [self |-> [s EXCEPT !.alpha_angle = f[1],
                            !.line_surface =
                                IF ~s.paused THEN "lines" ELSE @],
         out |-> [line |-> IF ~s.paused
                           THEN <<s.previous_point, s.point>>
                           ELSE <<>>,
                  fades |-> f[2],
                  circles |-> IF s.circles_visible
                              THEN [i \in 1..Len(s.harmonics) |->
                                       <<xy_points[i], xy_points[i + 1]>>]
                              ELSE <<>>]]

(* mutant: update_circles also runs while paused *)
run_frame_NoPauseCheck(s, dt) ==
    LET s1 == update_circles(s, dt)
        d == draw(s1)
    IN  [self |-> d.self,
         out |-> [evals |-> 1,
                  line |-> d.out.line,
                  fades |-> d.out.fades,
                  circles |-> d.out.circles],
         advanced |-> s1.angle_increment]

(* one iteration of run's loop after handle_input *)
run_frame(s, dt) ==
    LET s1 == IF ~s.paused THEN update_circles(s, dt) ELSE s
        d == draw(s1)
    IN  [self |-> d.self,
         out |-> [evals |-> IF ~s.paused THEN 1 ELSE 0,
                  line |-> d.out.line,
                  fades |-> d.out.fades,
                  circles |-> d.out.circles],
         advanced |-> IF ~s.paused THEN s1.angle_increment ELSE 0]

DtSet == {1, 2}

HandleInput ==
    /\ pc = "running"
    /\ \E ev \in Events : self' = handle_event(self, ev)
    /\ UNCHANGED <<pc, err, points_file, n, scale_factor, fade_arg, ifft_out,
                   path, pops, frame_out, totalAngle, fadeTotal, trace_end>>

(* a frame; frames stop when the angle advanced in total would pass cap *)
Frame(cap) ==
    /\ pc = "running"
    /\ \E dt \in DtSet :
          LET r == run_frame(self, dt)
          IN  /\ totalAngle + r.advanced <= cap
              /\ self' = r.self
              /\ frame_out' = r.out
              /\ totalAngle' = totalAngle + r.advanced
              /\ fadeTotal' = fadeTotal + r.out.fades
              /\ trace_end' = IF r.out.line # <<>> THEN r.out.line[2]
                                                   ELSE trace_end
    /\ pc' = IF self.running THEN "running" ELSE "stopped"
    /\ UNCHANGED <<err, points_file, n, scale_factor, fade_arg, ifft_out,
                   path, pops>>

Tick == Frame(MaxTotalAngle)

(* The whole program on a few files and arguments *)
Init ==
    /\ StartState
    /\ ifft_out = <<<<0, 0>>, <<2, 0>>, <<1, 1>>, <<0, -3>> >>
    /\ points_file = SamplePoints(Len(ifft_out))
    /\ scale_factor \in {Rat(4, 5), Rat(3, 2)}
    /\ n \in {None, <<0>>}
    /\ fade_arg \in BOOLEAN

Next == LoadPath \/ Transform \/ TruncateN \/ Construct \/ HandleInput \/ Tick

Spec == Init /\ [][Next]_vars

----------------------------------------------------------------------------
(* The frame loop of one constructed object under speed keys alone, run    *)
(* long enough for the angle to pass a full turn.                          *)

InitRunning ==
    /\ points_file = SamplePoints(3)
    /\ ifft_out = <<<<2, 0>>, <<0, -3>>, <<2, 0>> >>
    /\ scale_factor = Rat(4, 5)
    /\ n = None
    /\ fade_arg = FALSE
    /\ err = "none"
    /\ path = load_path(points_file, scale_factor).path
    /\ pops = transform(path).pops
    /\ self = NewObject(transform(path).h, fade_arg)
    /\ pc = "running"
    /\ frame_out = NoFrame
    /\ totalAngle = 0
    /\ fadeTotal = 0
    /\ trace_end = <<>>

SpeedKey ==
    /\ pc = "running"
    /\ \E ev \in {"K_UP", "K_DOWN"} : self' = handle_event(self, ev)
    /\ UNCHANGED <<pc, err, points_file, n, scale_factor, fade_arg, ifft_out,
                   path, pops, frame_out, totalAngle, fadeTotal, trace_end>>

LongTick == Frame(MaxTurnAngle)

NextTurn == SpeedKey \/ LongTick

SpecTurn == InitRunning /\ [][NextTurn]_vars
----------------------------------------------------------------------------
(* Properties *)

Constructed == pc \in {"running", "stopped"}

SortedByAmplitude(h) ==
    \A i \in 1..(Len(h) - 1) : AbsSq(h[i][1]) >= AbsSq(h[i + 1][1])

SomeNonzero(k) == \E i \in 1..Len(points_file) : points_file[i][k] # 0

(* C2: after load_path's rescaling with 0 < scale_factor <= 1 of a path    *)
(* with a nonzero x and a nonzero y, every point has                       *)
(* |x| <= scale_factor * canvas half-width and                             *)
(* |y| <= scale_factor * canvas half-height.                               *)
C2_RescaleFits ==
    (/\ pc = "loaded"
     /\ RatLt(Rat(0, 1), scale_factor) /\ RatLeq(scale_factor, Rat(1, 1))
     /\ SomeNonzero(1) /\ SomeNonzero(2))
    => \A i \in 1..Len(path) :
          /\ RatLeq(RatAbs(path[i][1]),
                    RatMul(scale_factor,
                           Rat(SCREEN_WIDTH * SMOOTH_SCALE_FACTOR, 2)))
          /\ RatLeq(RatAbs(path[i][2]),
                    RatMul(scale_factor,
                           Rat(SCREEN_HEIGHT * SMOOTH_SCALE_FACTOR, 2)))

BadN == n # None /\ n[1] <= 0

BadScale ==
    /\ scale_factor # Rat(0, 1)
    /\ ~(RatLt(Rat(0, 1), scale_factor) /\ RatLeq(scale_factor, Rat(1, 1)))

ArgumentErrors == {"ValueError: n", "ValueError: scale_factor"}

AnimationState ==
    {"main_surface", "angle", "speed", "paused", "circle_points", "point",
     "previous_point", "running", "alpha_angle", "line_surface"}

(* C3: a construction with n <= 0 or with a nonzero scale_factor outside   *)
(* (0, 1] ends with a ValueError and never with an object, no window or    *)
(* animation state exists when the error is raised, and with good          *)
(* arguments no such ValueError is raised.                                 *)
C3_InvalidArgument ==
    /\ (BadN \/ BadScale) => ~Constructed
    /\ ((BadN \/ BadScale) /\ pc = "error") => err \in ArgumentErrors
    /\ pc = "error" => (DOMAIN self) \cap AnimationState = {}
    /\ ~(BadN \/ BadScale) => err \notin ArgumentErrors

(* C4: the speed stays within [MIN_SPEED, MAX_SPEED]; K_UP doubles it      *)
(* unless that would exceed MAX_SPEED, K_DOWN halves it unless that would  *)
(* go below MIN_SPEED.                                                     *)
C4_SpeedClamp ==
    Constructed =>
        LET double == RatMul(self.speed, Rat(2, 1))
            half == RatDiv(self.speed, Rat(2, 1))
        IN  /\ RatLeq(MIN_SPEED, self.speed)
            /\ RatLeq(self.speed, MAX_SPEED)
            /\ handle_event(self, "K_UP").speed =
                   IF RatLt(MAX_SPEED, double) THEN self.speed ELSE double
            /\ handle_event(self, "K_DOWN").speed =
                   IF RatLt(half, MIN_SPEED) THEN self.speed ELSE half

C4_Witness ==
    /\ pc = "running"
    /\ self.speed = MIN_SPEED
    /\ totalAngle > 0
    /\ self.paused

(* C5: after every frame 0 <= angle < 2*pi *)
C5_AngleWrap == Constructed => (0 <= self.angle /\ self.angle < TAU)

(* a step that is a frame of the loop *)
FrameStep ==
    /\ pc = "running"
    /\ (frame_out' # frame_out \/ totalAngle' # totalAngle)

TipAt(h, angle) ==
    LET cp == CirclePoints(h, angle, <<to_complex(SCREEN_CENTER)>>)
    IN  from_complex(cp[Len(cp)])

(* C6: a frame run while paused leaves angle, circle_points,               *)
(* previous_point, point and alpha_angle unchanged and emits no trace      *)
(* segment and no fade blit; a frame run while not paused evaluates the    *)
(* chain exactly once.                                                     *)
C6_PauseFreezes ==
    [][FrameStep =>
         IF self.paused
         THEN /\ self'.angle = self.angle
              /\ self'.circle_points = self.circle_points
              /\ self'.previous_point = self.previous_point
              /\ self'.point = self.point
              /\ self'.alpha_angle = self.alpha_angle
              /\ frame_out'.line = <<>>
              /\ frame_out'.fades = 0
              /\ frame_out'.evals = 0
              /\ totalAngle' = totalAngle
         ELSE /\ frame_out'.evals = 1
              /\ self'.point = TipAt(self.harmonics, self'.angle)]_vars

C6_Witness ==
    /\ pc = "running"
    /\ self.paused
    /\ totalAngle > 0
    /\ frame_out.evals = 0
    /\ frame_out.line = <<>>
    /\ self.fade

PopsMade == pc \in {"transformed", "truncated", "running", "stopped"}

(* C7 as stated: the first pop is from the back, pops alternate, and the   *)
(* harmonic numbers in pop order are +1, -1, +2, -2, ...                   *)
C7_ReindexOrder_Stated ==
    PopsMade =>
        \A j \in 1..Len(pops) :
            /\ pops[j].from = IF j % 2 = 1 THEN "back" ELSE "front"
            /\ pops[j].hn = IF j % 2 = 1 THEN (j + 1) \div 2 ELSE -(j \div 2)

(* C7 amended: the first pop is from the back, pops alternate, and the     *)
(* harmonic numbers in pop order are -1, +1, -2, +2, ...: the index grows  *)
(* every two pops and the sign alternates every pop, starting negative.    *)
C7_ReindexOrder ==
    PopsMade =>
        /\ Len(pops) = Len(ifft_out) - 1
        /\ \A j \in 1..Len(pops) :
              /\ pops[j].from = IF j % 2 = 1 THEN "back" ELSE "front"
              /\ pops[j].hn = IF j % 2 = 1 THEN -((j + 1) \div 2) ELSE j \div 2

C7_Witness == pc = "transformed" /\ Len(pops) >= 4

KeptTerms(ps) ==
    LET kept == SelectSeq(ps, LAMBDA q : q.kept)
    IN  [j \in 1..Len(kept) |-> <<ifft_out[kept[j].raw + 1], <<0, kept[j].hn>> >>]

(* C8: the coefficient at raw index k gets harmonic number k when popped   *)
(* from the front and k - N when popped from the back, pruned or not; each *)
(* raw index 1..N-1 is popped once; the terms are the unpruned pops.       *)
C8_BinConsistency ==
    pc = "transformed" =>
        LET N == Len(ifft_out)
        IN  /\ Len(pops) = N - 1
            /\ {pops[j].raw : j \in 1..Len(pops)} = 1..(N - 1)
            /\ \A j \in 1..Len(pops) :
                  /\ pops[j].hn = IF pops[j].from = "front"
                                  THEN pops[j].raw ELSE pops[j].raw - N
                  /\ pops[j].kept = AbsGeqTenth(ifft_out[pops[j].raw + 1])
            /\ self.harmonics = KeptTerms(pops)

C8_Witness ==
    /\ pc = "transformed"
    /\ Len(ifft_out) >= 4
    /\ \E j, k \in 1..Len(pops) :
          j < k /\ ~pops[j].kept /\ pops[k].kept /\ pops[k].from = "back"

(* the fade blits made once the angle has advanced by a in total *)
FadeStepsFor(a) == IF a = 0 THEN 0 ELSE (a - 1) \div angle_per_alpha

(* C9: with fade on, the number of fade blits made is a function of the    *)
(* total angle advanced alone, and every frame leaves                      *)
(* alpha_angle <= angle_per_alpha.                                         *)
C9_FadeRate ==
    (Constructed /\ self.fade) =>
        /\ fadeTotal = FadeStepsFor(totalAngle)
        /\ self.alpha_angle <= angle_per_alpha

C9_Witness ==
    /\ pc = "running"
    /\ self.fade
    /\ fadeTotal >= 2
    /\ frame_out.fades = 2
    /\ self.speed # Rat(1, 1)

(* C10: every trace segment starts where the one before ended, the first   *)
(* at the chain's tip at angle 0, and a frame run while not paused emits   *)
(* exactly one segment, which ends at the chain's tip at the new angle.    *)
C10_TraceContinuity ==
    [][(FrameStep /\ ~self.paused) =>
          /\ Len(frame_out'.line) = 2
          /\ frame_out'.line[1] =
                 IF trace_end = <<>> THEN TipAt(self.harmonics, 0)
                                     ELSE trace_end
          /\ frame_out'.line[2] = TipAt(self.harmonics, self'.angle)
          /\ trace_end' = frame_out'.line[2]]_vars

C10_Witness ==
    /\ pc = "running"
    /\ Len(frame_out.line) = 2
    /\ frame_out.line[1] # TipAt(self.harmonics, 0)
    /\ frame_out.line[2] = trace_end
    /\ ~self.circles_visible
    /\ self.line_surface = "lines"

====
